---- MODULE Spec2Model ----
(***************************************************************************)
(* A state-machine model of src/src/model/bayesian_classifier.py:          *)
(* BayesianClassifier, its construction, kl(), forward(), forward_train(), *)
(* surrogate(), the PAC-Bayes bounds and evaluate_on_loader().             *)
(*                                                                         *)
(* Numbers.  A Python/torch float is a record: a finite value in           *)
(* fixed-point units of 1/SCALE, or one of the IEEE specials nan / inf.     *)
(* Division of torch tensors follows IEEE (x/0 is inf or nan); division of  *)
(* Python floats by zero raises ZeroDivisionError.                          *)
(***************************************************************************)
EXTENDS Integers, Sequences, FiniteSets, TLC

\* ------------------------------------------------------------- bounds
MaxLayerObjs == 2      \* distinct stochastic-layer objects that exist
MaxLayers == 2         \* length of the list handed to the constructor
MaxBatches == 2        \* batches a loader yields
MaxBatchSize == 2      \* examples in a batch handed to surrogate
MaxSamples == 2        \* n_samples of forward_train (and -MaxSamples below 0)

\* ------------------------------------------------------------- floats
SCALE == 1000

Fin(v) == [k |-> "fin", v |-> v]
NaN == [k |-> "nan", v |-> 0]
Inf(sign) == [k |-> "inf", v |-> sign]
IsFin(f) == f.k = "fin"
Sign(n) == IF n > 0 THEN 1 ELSE IF n < 0 THEN -1 ELSE 0
Abs(n) == IF n < 0 THEN -n ELSE n

\* a + b on floats
FAdd(a, b) ==
  IF a.k = "nan" \/ b.k = "nan" THEN NaN
  ELSE IF a.k = "inf" /\ b.k = "inf" THEN (IF a.v = b.v THEN a ELSE NaN)
  ELSE IF a.k = "inf" THEN a
  ELSE IF b.k = "inf" THEN b
  ELSE Fin(a.v + b.v)

\* -a on floats
FNeg(a) == IF a.k = "nan" THEN a ELSE [k |-> a.k, v |-> -(a.v)]

\* truncating quotient of two integers, d # 0
Quot(n, d) == Sign(n) * Sign(d) * ((Abs(n) * SCALE) \div Abs(d))

\* tensor.div(d) with a finite divisor d (fixed point): IEEE semantics
FDiv(a, d) ==
  IF a.k = "nan" THEN NaN
  ELSE IF a.k = "inf" THEN (IF d = 0 THEN a ELSE Inf(a.v * Sign(d)))
  ELSE IF d = 0 THEN (IF a.v = 0 THEN NaN ELSE Inf(Sign(a.v)))
  ELSE Fin(Quot(a.v, d))

\* a >= 0 on floats (every comparison with nan is false)
FGeqZero(a) == \/ a.k = "fin" /\ a.v >= 0
               \/ a.k = "inf" /\ a.v > 0

\* -log(k/Grid) for k = 1..Grid, in units of 1/SCALE (Grid = 4)
NegLogTable == <<1386, 693, 288, 0>>
Grid == Len(NegLogTable)
\* math.log(n) for n = 1..5, in units of 1/SCALE
LogTable == <<0, 693, 1099, 1386, 1609>>

\* tensor.log() of the probability p/Grid
Log(p) == IF p = 0 THEN Inf(-1) ELSE Fin(-(NegLogTable[p]))

RECURSIVE FSum(_)
FSum(s) == IF s = <<>> THEN Fin(0) ELSE FAdd(s[1], FSum(Tail(s)))

\* tensor.mean(): the mean of an empty tensor is nan
FMean(s) == FDiv(FSum(s), Len(s) * SCALE)

\* ------------------------------------------------------------- modules
Self == 0
LayerObjs == 1..MaxLayerObjs
SubOf(l) == MaxLayerObjs + l          \* the sub-module a layer may own
SubObjs == {SubOf(l) : l \in LayerObjs}
Modules == {Self} \cup LayerObjs \cup SubObjs

\* closed-form KL terms of the external layers; distinct sums for distinct
\* multisets of calls
LayerKl(m) == Fin(10 * m + 1)
LayerKlOracle(m) == Fin(1000 * m + 100)

VARIABLES
  modules,                              \* module -> its _modules, in order
  layers_arg,                           \* the list given to __init__
  training,                             \* module -> its .training flag
  bayesian_layers,
  prob_threshold,
  normalize_surrogate_by_log_classes,
  oracle_prior_variance,
  pc,                                   \* "idle" or the position in a method
  locals,                               \* the running method's local variables
  log,                                  \* calls made by the running method
  result                                \* how the last call ended

vars == <<modules, layers_arg, training, bayesian_layers, prob_threshold,
          normalize_surrogate_by_log_classes, oracle_prior_variance,
          pc, locals, log, result>>
object == <<modules, layers_arg, bayesian_layers, prob_threshold,
            normalize_surrogate_by_log_classes, oracle_prior_variance>>

Name(base, idx) == [base |-> base, idx |-> idx]
\* 'bayesian_layer' in name: the marker has no '.', so it is inside a component
HasMarker(name) == \E k \in DOMAIN name : name[k].base = "bayesian_layer"

RECURSIVE named_modules(_, _, _, _), named_children(_, _, _, _, _)
\* nn.Module.named_modules(memo, prefix): pre-order, every object once
named_modules(reg, m, memo, prefix) ==
  IF m \in memo THEN [out |-> <<>>, memo |-> memo]
  ELSE LET r == named_children(reg, reg[m], 1, memo \cup {m}, prefix)
       IN [out |-> <<[name |-> prefix, module |-> m]>> \o r.out, memo |-> r.memo]
named_children(reg, items, k, memo, prefix) ==
  IF k > Len(items) THEN [out |-> <<>>, memo |-> memo]
  ELSE LET first == named_modules(reg, items[k].module, memo,
                                  prefix \o <<items[k].name>>)
           rest == named_children(reg, items, k + 1, first.memo, prefix)
       IN [out |-> first.out \o rest.out, memo |-> rest.memo]

RECURSIVE SelectSeqMods(_)
SelectSeqMods(nm) ==
  IF nm = <<>> THEN <<>>
  ELSE (IF HasMarker(nm[1].name) THEN <<nm[1].module>> ELSE <<>>)
       \o SelectSeqMods(Tail(nm))

\* line 21-22: add_module(f'bayesian_layer{i_layer}', layer) for each layer
add_modules(kids, L) ==
  [m \in Modules |->
     IF m = Self
       THEN [i \in 1..Len(L) |-> [name |-> Name("bayesian_layer", i - 1), module |-> L[i]]]
       ELSE [i \in 1..Len(kids[m]) |-> [name |-> Name("sub", i - 1), module |-> kids[m][i]]]]

\* line 25: the list recovered by name
discover(reg) == SelectSeqMods(named_modules(reg, Self, {}, <<>>).out)

Thresholds == 1..(Grid - 1)            \* prob_threshold = t/Grid, in (0,1)
LayerLists == UNION {[1..n -> LayerObjs] : n \in 0..MaxLayers}
KidsChoices == {k \in [Modules -> {<<>>} \cup {<<s>> : s \in SubObjs}] :
                   /\ k[Self] = <<>>
                   /\ \A s \in SubObjs : k[s] = <<>>
                   /\ \A l \in LayerObjs : k[l] \in {<<>>, <<SubOf(l)>>}}

NoKids == [m \in Modules |-> <<>>]
NoResult == [op |-> "none", kind |-> "none", value |-> <<>>]
NoLocals == [method |-> "none"]

\* __init__ (lines 19-28) on the inputs (L, kids, t, norm, orc); nn.Module's
\* constructor leaves every module in training mode
NewObject(L, kids, t, norm, orc) ==
  /\ layers_arg = L
  /\ modules = add_modules(kids, L)
  /\ training = [m \in Modules |-> TRUE]
  /\ bayesian_layers = discover(add_modules(kids, L))
  /\ prob_threshold = t
  /\ normalize_surrogate_by_log_classes = norm
  /\ oracle_prior_variance = orc

\* a constructed classifier on which no method runs
Construct(L, kids, t, norm, orc) ==
  /\ NewObject(L, kids, t, norm, orc)
  /\ pc = "idle"
  /\ locals = NoLocals
  /\ log = <<>>
  /\ result = NoResult

Init ==
  \E L \in LayerLists, kids \in KidsChoices, t \in Thresholds,
     norm \in BOOLEAN, orc \in BOOLEAN :
       Construct(L, kids, t, norm, orc)

\* The classifiers on which the stepped methods are run: the layers 1..n in
\* order, none or each of the listed ones owning a sub-module.
RunLayerLists == {[i \in 1..n |-> i] : n \in 0..MaxLayers}
RunKids(L) ==
  {NoKids, [m \in Modules |-> IF m \in 1..Len(L) THEN <<SubOf(m)>> ELSE <<>>]}

InitTrain ==
  \E L \in RunLayerLists, t \in Thresholds, norm \in BOOLEAN, orc \in BOOLEAN :
    \E kids \in RunKids(L) : Construct(L, kids, t, norm, orc)

\* evaluate_on_loader never reads oracle_prior_variance
InitEval ==
  \E L \in RunLayerLists, t \in Thresholds, norm \in BOOLEAN :
    \E kids \in RunKids(L) : Construct(L, kids, t, norm, FALSE)

\* ------------------------------------------------------------- train / eval
RECURSIVE Descendants(_, _, _)
Descendants(reg, frontier, seen) ==
  IF frontier \subseteq seen THEN seen
  ELSE Descendants(reg,
         UNION {{reg[m][i].module : i \in DOMAIN reg[m]} : m \in frontier},
         seen \cup frontier)

\* nn.Module.train(mode): the flag of the module and of every descendant
train(flags, mode) ==
  LET reach == Descendants(modules, {Self}, {})
  IN [m \in Modules |-> IF m \in reach THEN mode ELSE flags[m]]

\* the caller switches the mode between calls: classifier.train(mode) / .eval()
SetMode ==
  /\ pc = "idle"
  /\ \E mode \in BOOLEAN : training' = train(training, mode)
  /\ result' = NoResult
  /\ log' = <<>>
  /\ locals' = NoLocals
  /\ UNCHANGED <<object, pc>>

\* ------------------------------------------------------------- kl, forward
IsLayer(m) == m \in LayerObjs          \* implements forward(x, mode), kl(), ...

Event(ev, arg) == [ev |-> ev, arg |-> arg]

\* kl_call without the branch on the flag: layer.kl() always
kl_call_standard_only(m) == [event |-> Event("kl", m), value |-> LayerKl(m)]

\* the per-layer call kl() makes for one layer (lines 56-59)
kl_call(m) ==
  IF oracle_prior_variance
    THEN [event |-> Event("kl_oracle_prior_variance", m), value |-> LayerKlOracle(m)]
    ELSE [event |-> Event("kl", m), value |-> LayerKl(m)]

RECURSIVE kl_loop(_, _, _)
\* lines 54-60: net_kl = 0.0; for layer in self.bayesian_layers: net_kl += ...
\* a module without the layer interface raises AttributeError
kl_loop(ls, net_kl, events) ==
  IF ls = <<>> THEN [kind |-> "return", value |-> net_kl, events |-> events]
  ELSE IF ~IsLayer(ls[1]) THEN [kind |-> "raise", value |-> Fin(0), events |-> events]
  ELSE kl_loop(Tail(ls), FAdd(net_kl, kl_call(ls[1]).value),
               Append(events, kl_call(ls[1]).event))

kl == kl_loop(bayesian_layers, Fin(0), <<>>)

RECURSIVE forward_loop(_, _)
\* lines 31-33: x = layer(x, mode) for each layer, in order
forward_loop(ls, events) ==
  IF ls = <<>> THEN [kind |-> "return", events |-> events]
  ELSE IF ~IsLayer(ls[1]) THEN [kind |-> "raise", events |-> events]
  ELSE forward_loop(Tail(ls), Append(events, Event("layer", ls[1])))

forward(mode) ==
  forward_loop(bayesian_layers,
               <<Event("forward", [mode |-> mode, training |-> training[Self]])>>)

\* a call of classifier.kl()
Kl ==
  /\ pc = "idle"
  /\ log' = kl.events
  /\ result' = [op |-> "kl", kind |-> kl.kind, value |-> kl.value]
  /\ UNCHANGED <<object, training, pc, locals>>

\* a call of classifier(x, mode)
Forward ==
  /\ pc = "idle"
  /\ \E mode \in {"MC", "MAP"} :
       /\ log' = forward(mode).events
       /\ result' = [op |-> "forward", kind |-> forward(mode).kind, value |-> Fin(0)]
  /\ UNCHANGED <<object, training, pc, locals>>

NextObject == SetMode \/ Kl \/ Forward
SpecObject == Init /\ [][NextObject]_vars

\* ------------------------------------------------------------- surrogate
ClassCounts == {1, 2}
RECURSIVE RowSum(_)
RowSum(r) == IF r = <<>> THEN 0 ELSE r[1] + RowSum(Tail(r))
\* probability rows over nc classes: entries k/Grid that sum to 1
Rows(nc) == {r \in [1..nc -> 0..Grid] : RowSum(r) = Grid}
\* a batch of probabilities of shape (n, nc) with its n labels
BatchesOf(nc, n) == [nc : {nc}, probs : [1..n -> Rows(nc)], y : [1..n -> 1..nc]]
Batches(maxn) == UNION {BatchesOf(nc, n) : nc \in ClassCounts, n \in 0..maxn}

\* tensor.clamp(min=lo, max=hi): max is applied after min
clamp(p, lo, hi) == LET a == IF p < lo THEN lo ELSE p IN IF a > hi THEN hi ELSE a

\* lines 64-70, for one example: row is its probabilities, label its class
surrogate_one(row, label, t, norm) ==
  LET log_likelihood == Log(clamp(row[label], t, Grid))
      s == FNeg(log_likelihood)
  IN IF norm THEN FDiv(s, LogTable[Len(row)]) ELSE s

\* lines 63-70: the per-example vector, not reduced
surrogate(b, t, norm) ==
  [i \in 1..Len(b.probs) |-> surrogate_one(b.probs[i], b.y[i], t, norm)]

\* the arguments of a call of the static method are drawn at the start
InitSurrogate ==
  /\ NewObject(<<1>>, NoKids, 1, FALSE, FALSE)
  /\ pc = "surrogate"
  /\ \E b \in Batches(MaxBatchSize), t \in Thresholds, norm \in BOOLEAN :
       locals = [method |-> "surrogate", batch |-> b, prob_threshold |-> t,
                 normalize_surrogate_by_log_classes |-> norm]
  /\ log = <<>>
  /\ result = NoResult

\* BayesianClassifier.surrogate(probs, y, prob_threshold, normalize_...)
Surrogate ==
  /\ pc = "surrogate"
  /\ pc' = "idle"
  /\ result' = [op |-> "surrogate", kind |-> "return",
                value |-> surrogate(locals.batch, locals.prob_threshold,
                                    locals.normalize_surrogate_by_log_classes)]
  /\ UNCHANGED <<object, training, locals, log>>

SpecSurrogate == InitSurrogate /\ [][Surrogate]_vars

\* ------------------------------------------------------------- bounds
RECURSIVE SqrtSearch(_, _, _)
\* the largest r in lo..hi with r * r <= n
SqrtSearch(n, lo, hi) ==
  IF lo >= hi THEN lo
  ELSE LET mid == (lo + hi + 1) \div 2
       IN IF mid * mid <= n THEN SqrtSearch(n, mid, hi) ELSE SqrtSearch(n, lo, mid - 1)

\* tensor.sqrt() in fixed point: nan below 0
FSqrt(a) ==
  IF a.k = "nan" THEN NaN
  ELSE IF a.k = "inf" THEN (IF a.v > 0 THEN a ELSE NaN)
  ELSE IF a.v < 0 THEN NaN
  ELSE Fin(SqrtSearch(a.v * SCALE, 0, a.v + SCALE))

\* a * b on finite floats
FMul(a, b) ==
  IF a.k = "fin" /\ b.k = "fin" THEN Fin((a.v * b.v) \div SCALE) ELSE NaN

\* (dataset_size, delta) pairs with math.log(2 * math.sqrt(dataset_size) / delta)
BoundSettings ==
  { [dataset_size |-> 1,   delta |-> 500, log_term |-> 1386],
    [dataset_size |-> 25,  delta |-> 500, log_term |-> 2996],
    [dataset_size |-> 25,  delta |-> 50,  log_term |-> 5298],
    [dataset_size |-> 100, delta |-> 50,  log_term |-> 5991],
    [dataset_size |-> 400, delta |-> 500, log_term |-> 4382],
    [dataset_size |-> 400, delta |-> 50,  log_term |-> 6685] }
Risks == {0, 10, 50, 250, 500, 1000}
Kls == {0, 500, 1000, 2000, 5000, 20000}

\* lines 73-78
quad_bound(risk, klv, st) ==
  LET log_2_sqrt_n_over_delta == st.log_term
      fraction == FDiv(Fin(klv + log_2_sqrt_n_over_delta), 2 * st.dataset_size * SCALE)
      sqrt1 == FSqrt(FAdd(Fin(risk), fraction))
      sqrt2 == FSqrt(fraction)
  IN FMul(FAdd(sqrt1, sqrt2), FAdd(sqrt1, sqrt2))

\* lines 88-90
pinsker_bound(risk, klv, st) ==
  LET B == FDiv(Fin(klv + st.log_term), st.dataset_size * SCALE)
  IN FAdd(Fin(risk), FSqrt(FDiv(B, 2 * SCALE)))

\* torch.max in place of torch.min
torch_max(a, b) ==
  IF a.k = "nan" \/ b.k = "nan" THEN NaN
  ELSE IF a.v >= b.v THEN a ELSE b

\* torch.min(a, b), elementwise: nan propagates
torch_min(a, b) ==
  IF a.k = "nan" \/ b.k = "nan" THEN NaN
  ELSE IF a.v <= b.v THEN a ELSE b

\* lines 93-97
inverted_kl_bound(risk, klv, st) ==
  torch_min(quad_bound(risk, klv, st), pinsker_bound(risk, klv, st))

InitBound ==
  /\ NewObject(<<1>>, NoKids, 1, FALSE, FALSE)
  /\ pc = "inverted_kl_bound"
  /\ \E risk \in Risks, klv \in Kls, st \in BoundSettings :
       locals = [method |-> "inverted_kl_bound", risk |-> risk, kl |-> klv, setting |-> st]
  /\ log = <<>>
  /\ result = NoResult

\* BayesianClassifier.inverted_kl_bound(risk, kl, dataset_size, delta)
InvertedKlBound ==
  /\ pc = "inverted_kl_bound"
  /\ pc' = "idle"
  /\ result' = [op |-> "inverted_kl_bound", kind |-> "return",
                value |-> inverted_kl_bound(locals.risk, locals.kl, locals.setting)]
  /\ UNCHANGED <<object, training, locals, log>>

SpecBound == InitBound /\ [][InvertedKlBound]_vars

\* ------------------------------------------------------------- forward_train
SampleCounts == (0 - MaxSamples)..MaxSamples
\* The (x, y) of a training step or of a loader batch: its classes and its
\* labels; a batch has 0, 1 or 2 examples.
StepSizes == {0, 1, 2}
Labels == UNION {[nc : {nc}, y : [1..n -> 1..nc]] : nc \in ClassCounts, n \in StepSizes}
\* what a successful 'MC' forward pass may produce for the labels yb: rows
\* on the half grid
StepRows(nc) == {r \in Rows(nc) : \A i \in 1..nc : r[i] % 2 = 0}
Probs(yb) == [1..Len(yb.y) -> StepRows(yb.nc)]
Batch(yb, probs) == [nc |-> yb.nc, probs |-> probs, y |-> yb.y]

Raise(op) == [op |-> op, kind |-> "raise", value |-> <<>>]

\* lines 35-37: the call, with its arguments
ForwardTrainCall ==
  /\ pc = "idle"
  /\ \E yb \in Labels, n \in SampleCounts :
       locals' = [method |-> "forward_train", yb |-> yb, n_samples |-> n, i |-> 0,
                  running_kl |-> Fin(0), running_surrogate |-> Fin(0),
                  probs |-> <<>>, kl |-> Fin(0), surrogate |-> Fin(0)]
  /\ pc' = "ft_for"
  /\ log' = <<>>
  /\ result' = NoResult
  /\ UNCHANGED <<object, training>>

\* line 38: for i in range(n_samples), the loop is entered
ForwardTrainIter ==
  /\ pc = "ft_for"
  /\ locals.i < locals.n_samples
  /\ pc' = "ft_forward"
  /\ UNCHANGED <<object, training, locals, log, result>>

\* line 39: probs = self(x, 'MC')
ForwardTrainForward ==
  /\ pc = "ft_forward"
  /\ log' = log \o forward("MC").events
  /\ IF forward("MC").kind = "raise"
       THEN /\ pc' = "idle"
            /\ result' = Raise("forward_train")
            /\ UNCHANGED locals
       ELSE /\ pc' = "ft_kl"
            /\ \E probs \in Probs(locals.yb) : locals' = [locals EXCEPT !.probs = probs]
            /\ UNCHANGED result
  /\ UNCHANGED <<object, training>>

\* line 40: kl = self.kl()
ForwardTrainKl ==
  /\ pc = "ft_kl"
  /\ log' = log \o kl.events
  /\ IF kl.kind = "raise"
       THEN /\ pc' = "idle"
            /\ result' = Raise("forward_train")
            /\ UNCHANGED locals
       ELSE /\ pc' = "ft_surrogate"
            /\ locals' = [locals EXCEPT !.kl = kl.value]
            /\ UNCHANGED result
  /\ UNCHANGED <<object, training>>

\* a running sum that keeps only the last term (= instead of +=)
accumulate_overwrite(running, term) == term

\* the += of lines 48-49
accumulate(running, term) == FAdd(running, term)

\* lines 41-49: the mean surrogate of the sample, then the two running sums
ForwardTrainSurrogate ==
  /\ pc = "ft_surrogate"
  /\ LET sv == FMean(surrogate(Batch(locals.yb, locals.probs), prob_threshold,
                                normalize_surrogate_by_log_classes))
     IN locals' = [locals EXCEPT !.surrogate = sv,
                                 !.running_kl = accumulate(@, locals.kl),
                                 !.running_surrogate = accumulate(@, sv),
                                 !.i = @ + 1]
  /\ log' = Append(log, Event("surrogate", 0))
  /\ pc' = "ft_for"
  /\ UNCHANGED <<object, training, result>>

\* line 51: running / n_samples; the running sums are Python floats (0.0) when
\* no iteration ran, and float / 0 raises ZeroDivisionError
forward_train_return(running_kl, running_surrogate, n_samples) ==
  IF n_samples = 0 THEN Raise("forward_train")
  ELSE [op |-> "forward_train", kind |-> "return",
        value |-> <<FDiv(running_kl, n_samples * SCALE),
                    FDiv(running_surrogate, n_samples * SCALE)>>]

\* line 51, once range(n_samples) is exhausted
ForwardTrainReturn ==
  /\ pc = "ft_for"
  /\ ~(locals.i < locals.n_samples)
  /\ result' = forward_train_return(locals.running_kl, locals.running_surrogate,
                                     locals.n_samples)
  /\ pc' = "idle"
  /\ UNCHANGED <<object, training, locals, log>>

NextTrain == \/ ForwardTrainCall \/ ForwardTrainIter \/ ForwardTrainForward
             \/ ForwardTrainKl \/ ForwardTrainSurrogate \/ ForwardTrainReturn
SpecTrain == InitTrain /\ [][NextTrain]_vars

\* ------------------------------------------------------------- evaluate_on_loader
\* Classifier.evaluate(probs, y): (correct, total); total is the batch size
\* and correct is any count up to it
Evaluations(yb) == [correct : 0..Len(yb.y), total : {Len(yb.y)}]

\* the variables of the loop body, before the first batch
NoBatch == [yb |-> [nc |-> 1, y |-> <<>>], probs |-> <<>>,
            correct |-> 0, total |-> 0, surrogate_batch |-> <<>>]

\* the frame when the method is left: the saved flag, the number of batches
\* consumed and the three sums stay readable, the loop body's variables go
leave(frame) ==
  [frame EXCEPT !.yb = NoBatch.yb, !.probs = NoBatch.probs,
                !.correct = NoBatch.correct, !.total = NoBatch.total,
                !.surrogate_batch = NoBatch.surrogate_batch]

\* lines 100-103: the mode is saved, the classifier is put in inference mode
EvaluateCall ==
  /\ pc = "idle"
  /\ locals' = [method |-> "evaluate_on_loader", training |-> training[Self],
                batches |-> 0, corrects |-> Fin(0), totals |-> Fin(0),
                surrogates |-> Fin(0),
                yb |-> NoBatch.yb, probs |-> NoBatch.probs,
                correct |-> NoBatch.correct, total |-> NoBatch.total,
                surrogate_batch |-> NoBatch.surrogate_batch]
  /\ training' = train(training, FALSE)
  /\ pc' = "ev_for"
  /\ log' = <<>>
  /\ result' = NoResult
  /\ UNCHANGED object

\* an accumulator that counts the term twice
item_add_twice(running, term) == FAdd(FAdd(running, term), term)

\* the += of lines 115-117 on a Python float
item_add(running, term) == FAdd(running, term)

\* lines 105-114: the loader yields a batch; the forward pass, the metrics
\* helper and surrogate run on it
EvaluateBatch ==
  /\ pc = "ev_for"
  /\ locals.batches < MaxBatches
  /\ forward("MC").kind = "return"
  /\ \E yb \in Labels :
       \E probs \in Probs(yb), ev \in Evaluations(yb) :
         locals' = [locals EXCEPT
                      !.batches = @ + 1, !.yb = yb, !.probs = probs,
                      !.correct = ev.correct, !.total = ev.total,
                      !.surrogate_batch =
                         surrogate(Batch(yb, probs), prob_threshold,
                                   normalize_surrogate_by_log_classes)]
  /\ log' = log \o forward("MC").events
  /\ pc' = "ev_add"
  /\ UNCHANGED <<object, training, result>>

\* lines 115-117: the three sums.  The loop body's variables are not read
\* again before the next iteration rebinds them, so they are dropped here.
EvaluateAccumulate ==
  /\ pc = "ev_add"
  /\ locals' = leave([locals EXCEPT
                        !.corrects = item_add(@, Fin(locals.correct * SCALE)),
                        !.totals = item_add(@, Fin(locals.total * SCALE)),
                        !.surrogates = item_add(@, FSum(locals.surrogate_batch))])
  /\ pc' = "ev_for"
  /\ UNCHANGED <<object, training, log, result>>

\* an error leaves the loop body: the loader raises while iterating, a
\* layer's forward raises (always so for a module without the layer
\* interface), or the metrics helper raises.  Nothing catches it.
EvaluateRaise ==
  /\ pc = "ev_for"
  /\ locals.batches < MaxBatches
  /\ \E cause \in {"loader", "forward", "metrics"} :
       /\ cause = "metrics" => forward("MC").kind = "return"
       /\ log' = IF cause = "loader" THEN log ELSE log \o forward("MC").events
  /\ result' = Raise("evaluate_on_loader")
  /\ locals' = leave(locals)
  /\ pc' = "idle"
  /\ UNCHANGED <<object, training>>

\* lines 118-119; Python float division by 0.0 raises ZeroDivisionError
evaluate_result(corrects, totals, surrogates) ==
  IF totals.v = 0 THEN Raise("evaluate_on_loader")
  ELSE [op |-> "evaluate_on_loader", kind |-> "return",
        value |-> <<FAdd(Fin(SCALE), FNeg(FDiv(corrects, totals.v))),
                    FDiv(surrogates, totals.v)>>]

\* self.train() in place of self.train(mode=training)
restore_train_always(flags, saved) == train(flags, TRUE)

\* line 121, reached only when lines 118-119 did not raise
restore(flags, saved) == train(flags, saved)

\* lines 118-122, once the loader is exhausted
EvaluateReturn ==
  /\ pc = "ev_for"
  /\ result' = evaluate_result(locals.corrects, locals.totals, locals.surrogates)
  /\ training' = IF evaluate_result(locals.corrects, locals.totals,
                                     locals.surrogates).kind = "return"
                   THEN restore(training, locals.training)
                   ELSE training
  /\ locals' = leave(locals)
  /\ pc' = "idle"
  /\ UNCHANGED <<object, log>>

NextEval == \/ SetMode \/ EvaluateCall \/ EvaluateBatch \/ EvaluateAccumulate
            \/ EvaluateRaise \/ EvaluateReturn
SpecEval == InitEval /\ [][NextEval]_vars

\* ============================================================= properties
ForwardEvents(l) == SelectSeq(l, LAMBDA e : e.ev = "forward")
InferencePass == Event("forward", [mode |-> "MC", training |-> FALSE])
Returned(op) == result.op = op /\ result.kind = "return"
Raised(op) == result.op = op /\ result.kind = "raise"

\* C1: whenever evaluate_on_loader exits by raising, the classifier's mode
\* flag equals the value it had before the call.
C1_ModeRestoredOnError ==
  Raised("evaluate_on_loader") => training[Self] = locals.training
\* the empty loader: the division of line 118 raises before any batch, and a
\* classifier that was in training mode is left in inference mode
C1_EmptyLoaderLeavesInference ==
  /\ Raised("evaluate_on_loader")
  /\ locals.batches = 0 /\ log = <<>>
  /\ locals.training /\ ~training[Self]

\* C2: evaluate_on_loader puts the classifier in inference mode before the
\* first batch, makes exactly one 'MC' forward pass per batch, each with the
\* flag in inference mode, and on normal return the flag is the pre-call one.
C2_InferenceDuringRestoredAfter ==
  /\ pc \in {"ev_for", "ev_add"} =>
       /\ training[Self] = FALSE
       /\ ForwardEvents(log) = [j \in 1..locals.batches |-> InferencePass]
  /\ Returned("evaluate_on_loader") =>
       /\ locals.batches >= 1
       /\ ForwardEvents(log) = [j \in 1..locals.batches |-> InferencePass]
       /\ training[Self] = locals.training
\* a call made in inference mode returned after MaxBatches batches
C2_Witness ==
  /\ Returned("evaluate_on_loader")
  /\ locals.training = FALSE
  /\ locals.batches = MaxBatches
  /\ Len(bayesian_layers) >= 1
\* and a call made in training mode returned to training mode
C2_WitnessTraining ==
  Returned("evaluate_on_loader") /\ locals.training /\ training[Self]

\* C3: the list recovered by name is exactly the list given to the
\* constructor: same layers, same count, same order, nothing else.
C3_DiscoveredListIsExact == bayesian_layers = layers_arg
IsInjective(q) == \A a, b \in DOMAIN q : q[a] = q[b] => a = b
\* what does hold: distinct layers without sub-modules are recovered exactly
C3_ExactForDistinctLeafLayers ==
  (IsInjective(layers_arg) /\ \A a \in DOMAIN layers_arg : modules[layers_arg[a]] = <<>>)
    => bayesian_layers = layers_arg

\* the terms and the calls of one KL aggregation, read off the attributes
KlTerms ==
  [j \in 1..Len(bayesian_layers) |->
     IF oracle_prior_variance THEN LayerKlOracle(bayesian_layers[j])
                              ELSE LayerKl(bayesian_layers[j])]
KlCalls ==
  [j \in 1..Len(bayesian_layers) |->
     Event(IF oracle_prior_variance THEN "kl_oracle_prior_variance" ELSE "kl",
           bayesian_layers[j])]
\* C4: a call of kl() changes no state of the classifier, and when it
\* returns its value is 0 plus, for every layer of bayesian_layers once and in
\* order, the formula the flag selects: kl_oracle_prior_variance() when
\* oracle_prior_variance is set, kl() otherwise, and no call of the other one.
C4_KlIsFlagSelectedSum ==
  [][result'.op = "kl" =>
       /\ UNCHANGED <<object, training>>
       /\ result'.kind = "return" =>
            /\ result'.value = FSum(KlTerms)
            /\ log' = KlCalls]_vars
C4_Witness ==
  /\ Returned("kl")
  /\ oracle_prior_variance
  /\ Len(bayesian_layers) = MaxLayers
  /\ result.value = FSum(KlTerms)

\* C5: forward_train with n_samples <= 0 ends in an error, never in a
\* returned pair.
C5_NonPositiveSamplesRejected ==
  (result.op = "forward_train" /\ locals.n_samples <= 0) => result.kind = "raise"
\* n_samples = 0 does raise (0.0 / 0), a negative n_samples does not
C5_ZeroSamplesRaises ==
  (result.op = "forward_train" /\ locals.n_samples = 0) => result.kind = "raise"

\* C6: with normalization on and a single class, surrogate is rejected with
\* an error; it never returns a value that came from a division by zero.
C6_SingleClassNormalizationRejected ==
  (result.op = "surrogate" /\ locals.normalize_surrogate_by_log_classes
     /\ locals.batch.nc = 1 /\ Len(locals.batch.probs) > 0)
    => result.kind = "raise"

\* C7: evaluate_on_loader starts its three sums at 0, adds to them for every
\* batch the helper's correct count, its total count and the sum of the
\* batch's per-example surrogate values, and returns (1 - C/T, S/T) of the
\* final sums, which needs T > 0; with C = T the returned error is 0.
C7_EvaluateAggregates ==
  [][/\ (pc = "idle" /\ pc' = "ev_for") =>
          /\ locals'.corrects = Fin(0)
          /\ locals'.totals = Fin(0)
          /\ locals'.surrogates = Fin(0)
     /\ (pc = "ev_for" /\ pc' = "ev_add") =>
          /\ locals'.surrogate_batch =
               surrogate(Batch(locals'.yb, locals'.probs), prob_threshold,
                         normalize_surrogate_by_log_classes)
          /\ locals'.total = Len(locals'.yb.y)
          /\ locals'.correct <= locals'.total
          /\ locals'.corrects = locals.corrects
          /\ locals'.totals = locals.totals
          /\ locals'.surrogates = locals.surrogates
     /\ (pc = "ev_add" /\ pc' = "ev_for") =>
          /\ locals'.corrects = FAdd(locals.corrects, Fin(locals.correct * SCALE))
          /\ locals'.totals = FAdd(locals.totals, Fin(locals.total * SCALE))
          /\ locals'.surrogates = FAdd(locals.surrogates, FSum(locals.surrogate_batch))
     /\ (pc = "ev_for" /\ result'.op = "evaluate_on_loader"
           /\ result'.kind = "return") =>
          /\ locals.totals.v > 0
          /\ result'.value[1] =
               Fin(SCALE - ((locals.corrects.v * SCALE) \div locals.totals.v))
          /\ result'.value[2] = FDiv(locals.surrogates, locals.totals.v)
          /\ locals.corrects = locals.totals => result'.value[1] = Fin(0)]_vars
\* two batches, every prediction correct, a non-zero mean surrogate
C7_Witness ==
  /\ Returned("evaluate_on_loader")
  /\ locals.batches = MaxBatches
  /\ locals.corrects = locals.totals
  /\ locals.totals.v = 2 * MaxBatches * SCALE
  /\ result.value[1] = Fin(0)
  /\ IsFin(result.value[2]) /\ result.value[2].v > 0

\* C8: inverted_kl_bound is at most quad_bound and at most pinsker_bound
\* on the same arguments, and equals one of the two.
C8_InvertedIsMinimum ==
  Returned("inverted_kl_bound") =>
    LET q == quad_bound(locals.risk, locals.kl, locals.setting)
        p == pinsker_bound(locals.risk, locals.kl, locals.setting)
    IN /\ IsFin(q) /\ IsFin(p) /\ IsFin(result.value)
       /\ result.value.v <= q.v
       /\ result.value.v <= p.v
       /\ result.value = q \/ result.value = p
\* the quadratic bound is the strictly smaller one
C8_Witness ==
  /\ Returned("inverted_kl_bound")
  /\ quad_bound(locals.risk, locals.kl, locals.setting).v
       < pinsker_bound(locals.risk, locals.kl, locals.setting).v
\* and elsewhere the Pinsker bound is
C8_WitnessPinsker ==
  /\ Returned("inverted_kl_bound")
  /\ pinsker_bound(locals.risk, locals.kl, locals.setting).v
       < quad_bound(locals.risk, locals.kl, locals.setting).v

\* the value of an example whose true-class probability is clamped up to t
ClampedValue(t, norm, nc) ==
  IF norm THEN FDiv(Fin(NegLogTable[t]), LogTable[nc]) ELSE Fin(NegLogTable[t])
SurrogateValuesOk(b, t, norm, value) ==
  \A j \in 1..Len(b.probs) :
    /\ FGeqZero(value[j])
    /\ b.probs[j][b.y[j]] <= t => value[j] = ClampedValue(t, norm, b.nc)
\* C9: every value surrogate returns is >= 0, and it is -log(prob_threshold),
\* divided by log(num_classes) under normalization, whenever the true-class
\* probability is at most prob_threshold.
C9_SurrogateNonNegativeAndClamped ==
  Returned("surrogate") =>
    SurrogateValuesOk(locals.batch, locals.prob_threshold,
                      locals.normalize_surrogate_by_log_classes, result.value)
\* what does hold: the same, away from single-class normalization
C9_HoldsAwayFromSingleClass ==
  (Returned("surrogate")
     /\ ~(locals.normalize_surrogate_by_log_classes /\ locals.batch.nc = 1)) =>
    SurrogateValuesOk(locals.batch, locals.prob_threshold,
                      locals.normalize_surrogate_by_log_classes, result.value)

\* the calls of one iteration of forward_train, in order
IterationCalls ==
  <<Event("forward", [mode |-> "MC", training |-> training[Self]])>>
    \o [j \in 1..Len(bayesian_layers) |-> Event("layer", bayesian_layers[j])]
    \o KlCalls
    \o <<Event("surrogate", 0)>>
RECURSIVE Repeat(_, _)
Repeat(q, n) == IF n <= 0 THEN <<>> ELSE q \o Repeat(q, n - 1)
\* the calls made so far are whole iterations plus the running one's prefix,
\* and a returned pair is the running sums over n_samples
C10_LogShape ==
  (locals.method = "forward_train" /\ result.kind # "raise") =>
    /\ pc \in {"ft_for", "idle"} => log = Repeat(IterationCalls, locals.i)
    /\ pc = "ft_forward" => log = Repeat(IterationCalls, locals.i)
    /\ pc = "ft_kl" =>
         log = Repeat(IterationCalls, locals.i)
               \o SubSeq(IterationCalls, 1, 1 + Len(bayesian_layers))
    /\ pc = "ft_surrogate" =>
         log = Repeat(IterationCalls, locals.i)
               \o SubSeq(IterationCalls, 1, 1 + 2 * Len(bayesian_layers))
    /\ (Returned("forward_train") /\ locals.n_samples >= 1) =>
         /\ locals.i = locals.n_samples
         /\ result.value[1] = FDiv(locals.running_kl, locals.n_samples * SCALE)
         /\ result.value[2] = FDiv(locals.running_surrogate, locals.n_samples * SCALE)
         /\ result.value[1] = FSum(KlTerms)
\* C10: for n_samples >= 1 forward_train runs exactly n_samples iterations,
\* each one 'MC' forward pass through bayesian_layers, then one KL
\* aggregation over bayesian_layers, then one mean surrogate; the KL of an
\* iteration is the one computed in it, both running sums grow by the
\* iteration's terms, and the pair returned is the sums over n_samples, whose
\* first component is the value of a single kl() call.
C10_ForwardTrainIterations ==
  [][/\ C10_LogShape'
     /\ (pc = "ft_kl" /\ pc' = "ft_surrogate") => locals'.kl = FSum(KlTerms)
     /\ (pc = "ft_surrogate" /\ pc' = "ft_for") =>
          /\ locals'.i = locals.i + 1
          /\ locals'.surrogate =
               FMean(surrogate(Batch(locals.yb, locals.probs), prob_threshold,
                               normalize_surrogate_by_log_classes))
          /\ locals'.running_kl = FAdd(locals.running_kl, locals.kl)
          /\ locals'.running_surrogate =
               FAdd(locals.running_surrogate, locals'.surrogate)]_vars
\* MaxSamples iterations over MaxLayers layers returned a pair
C10_Witness ==
  /\ Returned("forward_train")
  /\ locals.n_samples = MaxSamples
  /\ Len(bayesian_layers) = MaxLayers
  /\ Len(locals.yb.y) = 2
  /\ IsFin(result.value[2]) /\ result.value[2].v > 0
====
